---- MODULE Spec2Model ----
(***************************************************************************)
(* Model of the audio tools of lib/audio_processing:                       *)
(*   mix_stems.py        mix_stems (the mixer),                            *)
(*   separate_audio.py   main and separate_audio (the Demucs separator),   *)
(*   simple_separate.py  main and separate_audio (the simple separator).   *)
(* One run of one program is one behaviour: Init draws the program and its *)
(* inputs, each action is one step of the program's code.                  *)
(*                                                                         *)
(* Samples are floating-point numbers.  They are modelled as a binary      *)
(* floating-point format of MantBits significant bits whose smallest step  *)
(* is 2^-FracBits: a number is the integer count of such steps, and every  *)
(* arithmetic operation rounds its exact result to the nearest             *)
(* representable number, ties to even, as IEEE 754 arithmetic does.        *)
(***************************************************************************)
EXTENDS Integers, Sequences, FiniteSets, TLC

\* ------------------------------------------------------------------ bounds
MantBits == 4
FracBits == 6
MaxInputs == 3
MaxVolumes == 2

\* --------------------------------------------------- floating-point numbers
RECURSIVE Pow2(_)
Pow2(n) == IF n = 0 THEN 1 ELSE 2 * Pow2(n - 1)

\* 1.0
One == Pow2(FracBits)

\* The first magnitude that needs more than MantBits bits.
MantLimit == Pow2(MantBits)

Abs(x) == IF x < 0 THEN 0 - x ELSE x

\* The integer nearest to num/den (den > 0), ties to the even one.
RoundNearestEven(num, den) ==
    LET q == num \div den
        r == num % den
    IN  IF 2 * r < den THEN q
        ELSE IF 2 * r > den THEN q + 1
        ELSE IF q % 2 = 0 THEN q ELSE q + 1

RECURSIVE StepFrom(_, _)
StepFrom(a, s) == IF a \div s < MantLimit THEN s ELSE StepFrom(a, 2 * s)

\* The spacing of the representable numbers around magnitude a.
Step(a) == StepFrom(a, 1)

\* The representable number nearest to num/den steps.
FRound(num, den) ==
    LET s == Step(Abs(num) \div den)
    IN  s * RoundNearestEven(num, den * s)

FAdd(a, b) == FRound(a + b, 1)
FSub(a, b) == FRound(a - b, 1)
FMul(a, b) == FRound(a * b, One)
\* b > 0
FDiv(a, b) == FRound(a * One, b)

\* The literal d/10^k as a floating-point number.
Literal(num, den) == FRound(num * One, den)

C95 == Literal(95, 100)

\* ------------------------------------------------------------ audio buffers
\* A buffer is a sequence of frames; a frame is a sequence of samples, one per
\* channel (numpy shape (frames, channels)).
SeqMax(s) ==
    IF s = <<>> THEN 0
    ELSE CHOOSE m \in {s[k] : k \in DOMAIN s} : \A k \in DOMAIN s : s[k] <= m

\* np.stack([data, data], axis=1) of a one-dimensional array
StackStereo(frames) == [f \in 1..Len(frames) |-> <<frames[f][1], frames[f][1]>>]

\* data * volume
Scale(buf, v) == [f \in 1..Len(buf) |-> [c \in 1..Len(buf[f]) |-> FMul(buf[f][c], v)]]

\* The silence put in front of the data instead of after it.
PadToFront(buf, n) ==
    IF Len(buf) < n THEN [k \in 1..(n - Len(buf)) |-> <<0, 0>>] \o buf ELSE buf

\* np.vstack([data, np.zeros((n - len, channels))])
PadTo(buf, n) ==
    IF Len(buf) < n THEN buf \o [k \in 1..(n - Len(buf)) |-> <<0, 0>>] ELSE buf

AddBuffers(a, b) == [f \in 1..Len(a) |-> [c \in 1..Len(a[f]) |-> FAdd(a[f][c], b[f][c])]]

\* np.sum(bufs, axis=0): the slices along axis 0 are added in list order
RECURSIVE SumPrefix(_, _)
SumPrefix(bufs, n) ==
    IF n = 1 THEN bufs[1] ELSE AddBuffers(SumPrefix(bufs, n - 1), bufs[n])

SumBuffers(bufs) == SumPrefix(bufs, Len(bufs))

\* np.max(np.abs(buf)) of a buffer with at least one frame
Peak(buf) ==
    LET mags == {Abs(buf[f][c]) : f \in DOMAIN buf, c \in DOMAIN buf[1]}
    IN  CHOOSE m \in mags : \A x \in mags : x <= m

\* np.max raises ValueError on a zero-size array
PeakRaises(buf) == Len(buf) = 0

\* the guard "if max_val > 0"
ShouldScale(peak) == peak > 0

\* The 0.95 headroom left out.
RescaleToFullScale(buf, peak) ==
    [f \in 1..Len(buf) |-> [c \in 1..Len(buf[f]) |-> FDiv(buf[f][c], peak)]]

\* mixed / max_val * 0.95
Rescale(buf, peak) ==
    [f \in 1..Len(buf) |-> [c \in 1..Len(buf[f]) |-> FMul(FDiv(buf[f][c], peak), C95)]]

Normalize(buf) == IF ShouldScale(Peak(buf)) THEN Rescale(buf, Peak(buf)) ELSE buf

\* ------------------------------------------------------------ the mixer's inputs
\* The files a run may name: what os.path.exists and sf.read give for each.  Samples
\* are given in steps of 2^-FracBits.
FileSystem ==
    [ lead    |-> [exists |-> TRUE,  readable |-> TRUE,  sr |-> 44100, channels |-> 2,
                   frames |-> << <<15, -3>>, <<2, 7>> >>],
      mono    |-> [exists |-> TRUE,  readable |-> TRUE,  sr |-> 44100, channels |-> 1,
                   frames |-> << <<2>>, <<-12>>, <<9>> >>],
      hi      |-> [exists |-> TRUE,  readable |-> TRUE,  sr |-> 48000, channels |-> 2,
                   frames |-> << <<8, 8>> >>],
      silence |-> [exists |-> TRUE,  readable |-> TRUE,  sr |-> 44100, channels |-> 2,
                   frames |-> << <<0, 0>>, <<0, 0>> >>],
      empty   |-> [exists |-> TRUE,  readable |-> TRUE,  sr |-> 44100, channels |-> 1,
                   frames |-> << >>],
      corrupt |-> [exists |-> TRUE,  readable |-> FALSE, sr |-> 0, channels |-> 0,
                   frames |-> << >>],
      missing |-> [exists |-> FALSE, readable |-> FALSE, sr |-> 0, channels |-> 0,
                   frames |-> << >>] ]

Paths == DOMAIN FileSystem

SeqsUpTo(S, n) == UNION {[1..k -> S] : k \in 0..n}

Half == One \div 2
VolumeValues == {Half, One}

\* volumes=None, or a list of multipliers
VolumeArgs ==
    {[given |-> FALSE, list |-> <<>>]}
        \cup {[given |-> TRUE, list |-> l] : l \in SeqsUpTo(VolumeValues, MaxVolumes)}

OutputPath == "mixed"

\* ---------------------------------------------------------------- the state
VARIABLES
    prog,           \* which program runs: "mix", "demucs" or "simple"
    pc,             \* the program's position
    input_paths,    \* mix_stems argument
    volumes_arg,    \* mix_stems argument volumes, as passed
    output_format,  \* mix_stems argument
    volumes,        \* the local volumes after lines 48-51
    i,              \* loop index (1-based) of the loop being run
    sample_rate,    \* 0 stands for None
    audio_data,     \* mixer: the loaded, scaled buffers
    sf_read,        \* the paths handed to sf.read, in call order
    max_length,
    padded_data,
    mixed,          \* np.sum's result (line 97)
    normalized,     \* the buffer written out (mixed after line 102; the stems after normalization)
    divisors,       \* the values a division by max_val was executed with
    temp_wav,       \* the current temporary file, 0 when there is none
    temp_count,     \* temporary files created so far
    temps,          \* temporary files that exist
    files,          \* output files written completely
    partial,        \* output files an encoder left incomplete
    exc,            \* the exception being propagated, "none" when there is none
    failed,         \* a stage of this run has failed
    trace,          \* the stages run so far
    result,         \* the dict returned, status "none" until then
    deps_ok,        \* separators: the imports of lines 16-24 succeed
    argv_ok,        \* separators: argparse accepts the command line
    input_file,     \* separators: args.input_file
    device,         \* Demucs: the device selected, "" until then
    wav,            \* separators: sample rate, channel count and frames of the loaded audio
    stems,          \* separators: the separated stems, in saving order
    output_paths,   \* separators: the stems saved so far
    stdout,         \* the JSON objects printed, in order
    exit_code       \* the process exit code, -1 while the process runs

mixvars == <<input_paths, volumes_arg, output_format, volumes, sample_rate, audio_data,
             sf_read, max_length, padded_data, mixed>>
iovars == <<temp_wav, temp_count, temps, files, partial>>
sepvars == <<deps_ok, argv_ok, input_file, device, wav, stems, output_paths>>
outvars == <<stdout, exit_code>>

NoResult == [status |-> "none", error |-> "", expected |-> 0, actual |-> 0, path |-> "",
             output_paths |-> {}]

ErrorResult(kind, expected, actual, path) ==
    [status |-> "error", error |-> kind, expected |-> expected, actual |-> actual,
     path |-> path, output_paths |-> {}]

SuccessResult(paths) ==
    [status |-> "success", error |-> "", expected |-> 0, actual |-> 0, path |-> "",
     output_paths |-> paths]

\* ---------------------------------------------------------------- mix_stems
\* The missing volumes filled with 0.0 instead of 1.0.
DefaultVolumesSilent(arg, n) ==
    IF ~arg.given THEN [k \in 1..n |-> One]
    ELSE arg.list \o [k \in 1..(n - Len(arg.list)) |-> 0]

\* lines 48-51: volumes = [1.0] * N, or volumes + [1.0] * (N - K)  (a list times a
\* negative number is the empty list)
DefaultVolumes(arg, n) ==
    IF ~arg.given THEN [k \in 1..n |-> One]
    ELSE IF Len(arg.list) # n
         THEN arg.list \o [k \in 1..(n - Len(arg.list)) |-> One]
         ELSE arg.list

\* The volume of the next stem taken (an index off by one).
VolumeAtNext(vols, k) == IF k + 1 <= Len(vols) THEN vols[k + 1] ELSE One

\* line 80: volumes[i] if i < len(volumes) else 1.0   (k is 1-based)
VolumeAt(vols, k) == IF k <= Len(vols) THEN vols[k] ELSE One

\* lines 75-81 for one decoded file
LoadedBuffer(file, volume) ==
    Scale(IF file.channels = 1 THEN StackStereo(file.frames) ELSE file.frames, volume)

\* The rate check left out: every file is accepted.
RateMismatchIgnored(expected, sr) == FALSE

\* lines 67-69: sample_rate is None for the first file
RateMismatch(expected, sr) == expected # 0 /\ sr # expected

\* lines 41-55
MixStart ==
    /\ prog = "mix" /\ pc = "mix_start"
    /\ IF input_paths = <<>>
       THEN /\ result' = ErrorResult("No input files provided", 0, 0, "")
            /\ failed' = TRUE
            /\ pc' = "returned"
            /\ UNCHANGED <<volumes, trace>>
       ELSE /\ volumes' = DefaultVolumes(volumes_arg, Len(input_paths))
            /\ trace' = Append(trace, "volumes")
            /\ pc' = "mix_load"
            /\ UNCHANGED <<result, failed>>
    /\ UNCHANGED <<prog, input_paths, volumes_arg, output_format, i, sample_rate, audio_data,
                   sf_read, max_length, padded_data, mixed, normalized, divisors, iovars, exc,
                   sepvars, outvars>>

\* lines 57-83: one iteration of the loading loop
MixLoadOne ==
    /\ prog = "mix" /\ pc = "mix_load"
    /\ LET path == input_paths[i]
           file == FileSystem[path]
       IN  IF ~file.exists
           THEN \* lines 58-62
                /\ result' = ErrorResult("Input file not found", 0, 0, path)
                /\ failed' = TRUE
                /\ pc' = "returned"
                /\ UNCHANGED <<i, sample_rate, audio_data, sf_read, exc>>
           ELSE IF ~file.readable
           THEN \* line 64: sf.read raises
                /\ sf_read' = Append(sf_read, path)
                /\ exc' = "decode"
                /\ failed' = TRUE
                /\ pc' = "except"
                /\ UNCHANGED <<i, sample_rate, audio_data, result>>
           ELSE IF RateMismatch(sample_rate, file.sr)
           THEN \* lines 69-73
                /\ sf_read' = Append(sf_read, path)
                /\ result' = ErrorResult("Sample rate mismatch", sample_rate, file.sr, path)
                /\ failed' = TRUE
                /\ pc' = "returned"
                /\ UNCHANGED <<i, sample_rate, audio_data, exc>>
           ELSE \* lines 64-83
                /\ sf_read' = Append(sf_read, path)
                /\ sample_rate' = file.sr
                /\ audio_data' = Append(audio_data, LoadedBuffer(file, VolumeAt(volumes, i)))
                /\ i' = i + 1
                /\ pc' = IF i = Len(input_paths) THEN "mix_pad" ELSE "mix_load"
                /\ UNCHANGED <<result, failed, exc>>
    /\ trace' = Append(trace, "load")
    /\ UNCHANGED <<prog, input_paths, volumes_arg, output_format, volumes, max_length,
                   padded_data, mixed, normalized, divisors, iovars, sepvars, outvars>>

\* lines 85-94
MixPad ==
    /\ prog = "mix" /\ pc = "mix_pad"
    /\ max_length' = SeqMax([k \in 1..Len(audio_data) |-> Len(audio_data[k])])
    /\ padded_data' = [k \in 1..Len(audio_data) |-> PadTo(audio_data[k], max_length')]
    /\ trace' = Append(trace, "pad")
    /\ pc' = "mix_sum"
    /\ UNCHANGED <<prog, input_paths, volumes_arg, output_format, volumes, i, sample_rate,
                   audio_data, sf_read, mixed, normalized, divisors, iovars, exc, failed, result,
                   sepvars, outvars>>

\* line 97
MixSum ==
    /\ prog = "mix" /\ pc = "mix_sum"
    /\ mixed' = SumBuffers(padded_data)
    /\ trace' = Append(trace, "sum")
    /\ pc' = "mix_norm"
    /\ UNCHANGED <<prog, input_paths, volumes_arg, output_format, volumes, i, sample_rate,
                   audio_data, sf_read, max_length, padded_data, normalized, divisors, iovars,
                   exc, failed, result, sepvars, outvars>>

\* lines 100-102
MixNormalize ==
    /\ prog = "mix" /\ pc = "mix_norm"
    /\ trace' = Append(trace, "normalize")
    /\ IF PeakRaises(mixed)
       THEN /\ exc' = "value"
            /\ failed' = TRUE
            /\ pc' = "except"
            /\ UNCHANGED <<normalized, divisors>>
       ELSE /\ normalized' = <<Normalize(mixed)>>
            /\ divisors' = IF ShouldScale(Peak(mixed)) THEN divisors \cup {Peak(mixed)}
                           ELSE divisors
            /\ pc' = "mix_mkdir"
            /\ UNCHANGED <<exc, failed>>
    /\ UNCHANGED <<prog, mixvars, i, iovars, result, sepvars, outvars>>

\* lines 105-107: os.makedirs may raise OSError
MixMakedirs ==
    /\ prog = "mix" /\ pc = "mix_mkdir"
    /\ trace' = Append(trace, "makedirs")
    /\ \/ /\ pc' = "mix_write"
          /\ UNCHANGED <<exc, failed>>
       \/ /\ exc' = "os"
          /\ failed' = TRUE
          /\ pc' = "except"
    /\ UNCHANGED <<prog, mixvars, i, normalized, divisors, iovars, result, sepvars, outvars>>

\* line 126: sf.write(output_path, mixed, sample_rate); a failing write may leave
\* an incomplete file behind
MixWriteWav ==
    /\ prog = "mix" /\ pc = "mix_write" /\ output_format # "mp3"
    /\ trace' = Append(trace, "encode")
    /\ \/ /\ files' = files \cup {OutputPath}
          /\ pc' = "mix_return"
          /\ UNCHANGED <<partial, exc, failed>>
       \/ /\ \E left \in BOOLEAN : partial' = IF left THEN partial \cup {OutputPath} ELSE partial
          /\ exc' = "encode"
          /\ failed' = TRUE
          /\ pc' = "except"
          /\ UNCHANGED files
    /\ UNCHANGED <<prog, mixvars, i, normalized, divisors, temp_wav, temp_count, temps, result,
                   sepvars, outvars>>

\* lines 128-135
MixReturn ==
    /\ prog = "mix" /\ pc = "mix_return"
    /\ result' = SuccessResult({OutputPath})
    /\ pc' = "returned"
    /\ UNCHANGED <<prog, mixvars, i, normalized, divisors, iovars, exc, failed, trace, sepvars,
                   outvars>>

\* lines 137-141
MixExcept ==
    /\ prog = "mix" /\ pc = "except"
    /\ result' = ErrorResult("Error mixing stems", 0, 0, "")
    /\ exc' = "none"
    /\ pc' = "returned"
    /\ UNCHANGED <<prog, mixvars, i, normalized, divisors, iovars, failed, trace, sepvars,
                   outvars>>

\* ------------------------------------------------ the MP3 encoding step
\* mix_stems.py lines 110-123, and save_as_mp3 of both separators.
\* The file the encoding step in progress writes.
StemNames ==
    IF prog = "demucs" THEN <<"drums", "bass", "other", "vocals">>
    ELSE <<"vocals", "accompaniment">>

CurrentOutput == IF prog = "mix" THEN OutputPath ELSE StemNames[i]

\* tempfile.NamedTemporaryFile(suffix='.wav', delete=False): creates the file, or raises
\* before the try block is entered
Mp3CreateTemp ==
    /\ \/ prog = "mix" /\ pc = "mix_write" /\ output_format = "mp3"
       \/ prog # "mix" /\ pc = "save_stem"
    /\ trace' = Append(trace, "encode")
    /\ \/ /\ temp_count' = temp_count + 1
          /\ temp_wav' = temp_count + 1
          /\ temps' = temps \cup {temp_count + 1}
          /\ pc' = "mp3_wav"
          /\ UNCHANGED <<exc, failed>>
       \/ /\ exc' = "os"
          /\ failed' = TRUE
          /\ pc' = "except"
          /\ UNCHANGED <<temp_count, temp_wav, temps>>
    /\ UNCHANGED <<prog, mixvars, i, normalized, divisors, files, partial, result, sepvars,
                   outvars>>

\* sf.write(temp_wav.name, ...)
Mp3WriteWav ==
    /\ pc = "mp3_wav"
    /\ \/ /\ pc' = "mp3_read"
          /\ UNCHANGED <<exc, failed>>
       \/ /\ exc' = "encode"
          /\ failed' = TRUE
          /\ pc' = "mp3_finally"
    /\ UNCHANGED <<prog, mixvars, i, normalized, divisors, iovars, result, trace, sepvars,
                   outvars>>

\* AudioSegment.from_wav(temp_wav.name)
Mp3FromWav ==
    /\ pc = "mp3_read"
    /\ \/ /\ pc' = "mp3_export"
          /\ UNCHANGED <<exc, failed>>
       \/ /\ exc' = "encode"
          /\ failed' = TRUE
          /\ pc' = "mp3_finally"
    /\ UNCHANGED <<prog, mixvars, i, normalized, divisors, iovars, result, trace, sepvars,
                   outvars>>

\* audio.export(path, format="mp3", bitrate=bitrate); a failing export may leave an
\* incomplete file behind
Mp3Export ==
    /\ pc = "mp3_export"
    /\ \/ /\ files' = files \cup {CurrentOutput}
          /\ UNCHANGED <<partial, exc, failed>>
       \/ /\ \E left \in BOOLEAN :
                partial' = IF left THEN partial \cup {CurrentOutput} ELSE partial
          /\ exc' = "encode"
          /\ failed' = TRUE
          /\ UNCHANGED files
    /\ pc' = "mp3_finally"
    /\ UNCHANGED <<prog, mixvars, i, normalized, divisors, temp_wav, temp_count, temps, result,
                   trace, sepvars, outvars>>

\* The clean-up placed after the encoding instead of in a finally block: it is
\* skipped when the encoding raised.
RemoveTempOnSuccessOnly(existing, t) == IF exc = "none" THEN existing \ {t} ELSE existing

\* the finally block: temp_wav.close(); os.unlink(temp_wav.name) if it exists
RemoveTemp(existing, t) == existing \ {t}

\* The exception swallowed: the run goes on as if the encoding had succeeded.
AfterEncodingSwallowed == IF prog = "mix" THEN "mix_return" ELSE "stem_saved"

\* Where control goes after the finally block.
AfterEncoding ==
    IF exc # "none" THEN "except"
    ELSE IF prog = "mix" THEN "mix_return"
    ELSE "stem_saved"

Mp3Finally ==
    /\ pc = "mp3_finally"
    /\ temps' = RemoveTemp(temps, temp_wav)
    /\ temp_wav' = 0
    /\ pc' = AfterEncoding
    /\ UNCHANGED <<prog, mixvars, i, normalized, divisors, temp_count, files, partial, exc,
                   failed, result, trace, sepvars, outvars>>

\* ------------------------------------------------------- the separators' inputs
\* What os.path.exists, sf.read and librosa.load give for each input file.
SepFileSystem ==
    [ song     |-> [exists |-> TRUE,  sf_ok |-> TRUE,  librosa_ok |-> TRUE,  sr |-> 44100,
                    channels |-> 2, frames |-> << <<24, 8>>, <<-40, 12>> >>],
      voice    |-> [exists |-> TRUE,  sf_ok |-> TRUE,  librosa_ok |-> TRUE,  sr |-> 22050,
                    channels |-> 1, frames |-> << <<10>>, <<-6>> >>],
      video    |-> [exists |-> TRUE,  sf_ok |-> FALSE, librosa_ok |-> TRUE,  sr |-> 48000,
                    channels |-> 2, frames |-> << <<5, 5>> >>],
      surround |-> [exists |-> TRUE,  sf_ok |-> TRUE,  librosa_ok |-> TRUE,  sr |-> 44100,
                    channels |-> 3, frames |-> << <<7, -7, 30>> >>],
      blank    |-> [exists |-> TRUE,  sf_ok |-> TRUE,  librosa_ok |-> TRUE,  sr |-> 44100,
                    channels |-> 2, frames |-> << <<0, 0>> >>],
      zero     |-> [exists |-> TRUE,  sf_ok |-> TRUE,  librosa_ok |-> TRUE,  sr |-> 44100,
                    channels |-> 1, frames |-> << >>],
      junk     |-> [exists |-> TRUE,  sf_ok |-> FALSE, librosa_ok |-> FALSE, sr |-> 0,
                    channels |-> 0, frames |-> << >>],
      absent   |-> [exists |-> FALSE, sf_ok |-> FALSE, librosa_ok |-> FALSE, sr |-> 0,
                    channels |-> 0, frames |-> << >>] ]

SepPaths == DOMAIN SepFileSystem

NoWav == [sr |-> 0, channels |-> 0, frames |-> << >>]

\* model.samplerate and model.audio_channels of get_model('htdemucs')
ModelSampleRate == 44100
ModelAudioChannels == 2

\* What apply_model may return for one source.
StemBuffers ==
    { << <<0, 0>>, <<0, 0>> >>,
      << <<80, -24>>, <<3, 0>> >>,
      << <<-1, 0>>, <<0, 1>> >> }

\* The sources have as many samples as the waveform given to apply_model.
SourcesFor(w) == IF w.frames = << >> THEN {<< >>} ELSE StemBuffers

Devices == {"cuda", "mps", "cpu"}

Progress(n) == [status |-> "progress", progress |-> n]
Terminal(st) == [status |-> st, progress |-> 0 - 1]

\* ------------------------------------------------------- the separators' main
\* the import block: separate_audio.py lines 16-31, simple_separate.py lines 15-26
Import ==
    /\ prog # "mix" /\ pc = "import"
    /\ IF deps_ok
       THEN /\ pc' = "main_parse"
            /\ UNCHANGED outvars
       ELSE /\ stdout' = Append(stdout, Terminal("error"))
            /\ exit_code' = 1
            /\ pc' = "exited"
    /\ UNCHANGED <<prog, mixvars, i, normalized, divisors, iovars, exc, failed, trace, result,
                   sepvars>>

\* parser.parse_args(): argparse writes its usage message to stderr and exits with
\* status 2 when it rejects the command line
MainParseArgs ==
    /\ prog # "mix" /\ pc = "main_parse"
    /\ IF argv_ok
       THEN /\ pc' = "main_exists"
            /\ UNCHANGED outvars
       ELSE /\ exit_code' = 2
            /\ pc' = "exited"
            /\ UNCHANGED stdout
    /\ UNCHANGED <<prog, mixvars, i, normalized, divisors, iovars, exc, failed, trace, result,
                   sepvars>>

\* separate_audio.py lines 201-206, simple_separate.py lines 172-177
MainCheckInput ==
    /\ prog # "mix" /\ pc = "main_exists"
    /\ IF SepFileSystem[input_file].exists
       THEN /\ pc' = "sep_init"
            /\ UNCHANGED outvars
       ELSE /\ stdout' = Append(stdout, Terminal("error"))
            /\ exit_code' = 1
            /\ pc' = "exited"
    /\ UNCHANGED <<prog, mixvars, i, normalized, divisors, iovars, exc, failed, trace, result,
                   sepvars>>

\* separate_audio.py lines 208-212, simple_separate.py lines 179-183
MainPrintResult ==
    /\ prog # "mix" /\ pc = "returned"
    /\ stdout' = Append(stdout, Terminal(result.status))
    /\ exit_code' = IF result.status = "error" THEN 1 ELSE 0
    /\ pc' = "exited"
    /\ UNCHANGED <<prog, mixvars, i, normalized, divisors, iovars, exc, failed, trace, result,
                   sepvars>>

\* ------------------------------------------------ separate_audio, both separators
\* A stage that may raise: it either moves on to `next` or raises `kind`.
MayRaise(next, kind) ==
    \/ /\ pc' = next
       /\ UNCHANGED <<exc, failed>>
    \/ /\ exc' = kind
       /\ failed' = TRUE
       /\ pc' = "except"

\* update_progress(0); os.makedirs(output_dir, exist_ok=True)
SepInit ==
    /\ prog # "mix" /\ pc = "sep_init"
    /\ stdout' = Append(stdout, Progress(0))
    /\ trace' = Append(trace, "makedirs")
    /\ MayRaise(IF prog = "demucs" THEN "demucs_model" ELSE "simple_load", "os")
    /\ UNCHANGED <<prog, mixvars, i, normalized, divisors, iovars, result, sepvars, exit_code>>

\* separate_audio.py lines 59-75
DemucsLoadModel ==
    /\ prog = "demucs" /\ pc = "demucs_model"
    /\ stdout' = stdout \o <<Progress(10), Progress(12)>>
    /\ device' \in Devices
    /\ trace' = Append(trace, "model")
    /\ MayRaise("demucs_load", "model")
    /\ UNCHANGED <<prog, mixvars, i, normalized, divisors, iovars, result, deps_ok, argv_ok,
                   input_file, wav, stems, output_paths, exit_code>>

\* separate_audio.py lines 77-91: sf.read, and librosa.load when sf.read raises
DemucsLoadAudio ==
    /\ prog = "demucs" /\ pc = "demucs_load"
    /\ stdout' = Append(stdout, Progress(20))
    /\ trace' = Append(trace, "load")
    /\ LET file == SepFileSystem[input_file]
       IN  IF file.sf_ok \/ file.librosa_ok
           THEN /\ wav' = [sr |-> file.sr, channels |-> file.channels, frames |-> file.frames]
                /\ pc' = "demucs_resample"
                /\ UNCHANGED <<exc, failed>>
           ELSE /\ exc' = "decode"
                /\ failed' = TRUE
                /\ pc' = "except"
                /\ UNCHANGED wav
    /\ UNCHANGED <<prog, mixvars, i, normalized, divisors, iovars, result, deps_ok, argv_ok,
                   input_file, device, stems, output_paths, exit_code>>

\* separate_audio.py lines 94-96
DemucsResample ==
    /\ prog = "demucs" /\ pc = "demucs_resample"
    /\ wav' = IF wav.sr # ModelSampleRate THEN [wav EXCEPT !.sr = ModelSampleRate] ELSE wav
    /\ trace' = Append(trace, "resample")
    /\ pc' = "demucs_channels"
    /\ UNCHANGED <<prog, mixvars, i, normalized, divisors, iovars, exc, failed, result, deps_ok,
                   argv_ok, input_file, device, stems, output_paths, outvars>>

\* separate_audio.py lines 99-104: wav.repeat(model.audio_channels, 1) tiles the channel
\* axis model.audio_channels times; wav.mean(dim=0, keepdim=True) leaves one channel
ReconcileChannels(c) ==
    IF c < ModelAudioChannels THEN c * ModelAudioChannels
    ELSE IF c > ModelAudioChannels THEN 1
    ELSE c

DemucsChannels ==
    /\ prog = "demucs" /\ pc = "demucs_channels"
    /\ wav' = [wav EXCEPT !.channels = ReconcileChannels(wav.channels)]
    /\ trace' = Append(trace, "channels")
    /\ pc' = "demucs_apply"
    /\ UNCHANGED <<prog, mixvars, i, normalized, divisors, iovars, exc, failed, result, deps_ok,
                   argv_ok, input_file, device, stems, output_paths, outvars>>

\* separate_audio.py lines 111-122: apply_model returns one buffer per source, or raises
DemucsApply ==
    /\ prog = "demucs" /\ pc = "demucs_apply"
    /\ stdout' = Append(stdout, Progress(30))
    /\ trace' = Append(trace, "separate")
    /\ \/ /\ stems' \in [1..Len(StemNames) -> SourcesFor(wav)]
          /\ pc' = "demucs_stems"
          /\ UNCHANGED <<exc, failed>>
       \/ /\ exc' = "model"
          /\ failed' = TRUE
          /\ pc' = "except"
          /\ UNCHANGED stems
    /\ UNCHANGED <<prog, mixvars, i, normalized, divisors, iovars, result, deps_ok, argv_ok,
                   input_file, device, wav, output_paths, exit_code>>

\* separate_audio.py lines 124-135
DemucsStems ==
    /\ prog = "demucs" /\ pc = "demucs_stems"
    /\ stdout' = stdout \o <<Progress(70), Progress(80)>>
    /\ i' = 1
    /\ pc' = "normalize_stem"
    /\ UNCHANGED <<prog, mixvars, normalized, divisors, iovars, exc, failed, trace, result,
                   sepvars, exit_code>>

\* separate_audio.py lines 155-167: one stem's normalization
DemucsNormalizeStem ==
    /\ prog = "demucs" /\ pc = "normalize_stem"
    /\ trace' = Append(trace, "normalize")
    /\ IF PeakRaises(stems[i])
       THEN /\ exc' = "value"
            /\ failed' = TRUE
            /\ pc' = "except"
            /\ UNCHANGED <<normalized, divisors>>
       ELSE /\ normalized' = Append(normalized, Normalize(stems[i]))
            /\ divisors' = IF ShouldScale(Peak(stems[i])) THEN divisors \cup {Peak(stems[i])}
                           ELSE divisors
            /\ pc' = "save_stem"
            /\ UNCHANGED <<exc, failed>>
    /\ UNCHANGED <<prog, mixvars, i, iovars, result, sepvars, outvars>>

\* separate_audio.py line 171, simple_separate.py lines 137 and 142
StemSaved ==
    /\ prog # "mix" /\ pc = "stem_saved"
    /\ output_paths' = output_paths \cup {StemNames[i]}
    /\ i' = i + 1
    /\ pc' = IF i = Len(stems) THEN "sep_done"
             ELSE IF prog = "demucs" THEN "normalize_stem" ELSE "save_stem"
    /\ UNCHANGED <<prog, mixvars, normalized, divisors, iovars, exc, failed, trace, result,
                   deps_ok, argv_ok, input_file, device, wav, stems, outvars>>

\* separate_audio.py lines 173-182, simple_separate.py lines 144-153
SepDone ==
    /\ prog # "mix" /\ pc = "sep_done"
    /\ stdout' = Append(stdout, Progress(100))
    /\ result' = SuccessResult(output_paths)
    /\ pc' = "returned"
    /\ UNCHANGED <<prog, mixvars, i, normalized, divisors, iovars, exc, failed, trace, sepvars,
                   exit_code>>

\* separate_audio.py lines 184-191, simple_separate.py lines 155-162
SepExcept ==
    /\ prog # "mix" /\ pc = "except"
    /\ result' = ErrorResult("Error during audio separation", 0, 0, "")
    /\ exc' = "none"
    /\ pc' = "returned"
    /\ UNCHANGED <<prog, mixvars, i, normalized, divisors, iovars, failed, trace, sepvars,
                   outvars>>

\* ------------------------------------------------ simple_separate.py
Two == 2 * One
P3 == Literal(3, 10)

\* simple_separation, lines 49-75, frame by frame: a one-dimensional (mono) array is
\* stacked into two equal channels, more than two channels are cut to the first two
SimpleSeparation(w) ==
    LET left(f) == w.frames[f][1]
        right(f) == IF w.channels = 1 THEN w.frames[f][1] ELSE w.frames[f][2]
        voc(f) == FDiv(FAdd(left(f), right(f)), Two)
        acc(f) == FAdd(FDiv(FSub(left(f), right(f)), Two), FMul(P3, voc(f)))
    IN  << [f \in 1..Len(w.frames) |-> <<voc(f), voc(f)>>],
           [f \in 1..Len(w.frames) |-> <<acc(f), acc(f)>>] >>

\* lines 96-97: librosa.load
SimpleLoad ==
    /\ prog = "simple" /\ pc = "simple_load"
    /\ stdout' = Append(stdout, Progress(20))
    /\ trace' = Append(trace, "load")
    /\ LET file == SepFileSystem[input_file]
       IN  IF file.librosa_ok
           THEN /\ wav' = [sr |-> file.sr, channels |-> file.channels, frames |-> file.frames]
                /\ pc' = "simple_analyze"
                /\ UNCHANGED <<exc, failed>>
           ELSE /\ exc' = "decode"
                /\ failed' = TRUE
                /\ pc' = "except"
                /\ UNCHANGED wav
    /\ UNCHANGED <<prog, mixvars, i, normalized, divisors, iovars, result, deps_ok, argv_ok,
                   input_file, device, stems, output_paths, exit_code>>

\* The two checkpoints emitted in the wrong order.
AnalyzeProgressSwapped == <<Progress(50), Progress(40)>>

\* lines 99 and 103: the two checkpoints around the duration computation
AnalyzeProgress == <<Progress(40), Progress(50)>>

\* lines 99-103
SimpleAnalyze ==
    /\ prog = "simple" /\ pc = "simple_analyze"
    /\ stdout' = stdout \o AnalyzeProgress
    /\ pc' = "simple_separate"
    /\ UNCHANGED <<prog, mixvars, i, normalized, divisors, iovars, exc, failed, trace, result,
                   sepvars, exit_code>>

\* lines 106-107
SimpleSeparate ==
    /\ prog = "simple" /\ pc = "simple_separate"
    /\ stdout' = Append(stdout, Progress(60))
    /\ stems' = SimpleSeparation(wav)
    /\ trace' = Append(trace, "separate")
    /\ pc' = "simple_normalize"
    /\ UNCHANGED <<prog, mixvars, i, normalized, divisors, iovars, exc, failed, result, deps_ok,
                   argv_ok, input_file, device, wav, output_paths, exit_code>>

\* lines 109-116: both stems are normalized before either is saved
SimpleNormalize ==
    /\ prog = "simple" /\ pc = "simple_normalize"
    /\ stdout' = Append(stdout, Progress(80))
    /\ trace' = Append(trace, "normalize")
    /\ IF PeakRaises(stems[1])
       THEN /\ exc' = "value"
            /\ failed' = TRUE
            /\ pc' = "except"
            /\ UNCHANGED <<normalized, divisors, i>>
       ELSE /\ normalized' = <<Normalize(stems[1]), Normalize(stems[2])>>
            /\ divisors' = divisors
                  \cup {Peak(stems[k]) : k \in {n \in 1..2 : ShouldScale(Peak(stems[n]))}}
            /\ i' = 1
            /\ pc' = "save_stem"
            /\ UNCHANGED <<exc, failed>>
    /\ UNCHANGED <<prog, mixvars, iovars, result, sepvars, exit_code>>

\* ------------------------------------------------------------ the whole system
Init ==
    /\ prog \in {"mix", "demucs", "simple"}
    /\ pc = IF prog = "mix" THEN "mix_start" ELSE "import"
    /\ input_paths \in IF prog = "mix" THEN SeqsUpTo(Paths, MaxInputs) ELSE {<< >>}
    /\ volumes_arg \in IF prog = "mix" THEN VolumeArgs ELSE {[given |-> FALSE, list |-> << >>]}
    /\ output_format \in IF prog = "mix" THEN {"mp3", "wav"} ELSE {"mp3"}
    /\ deps_ok \in IF prog = "mix" THEN {TRUE} ELSE BOOLEAN
    /\ argv_ok \in IF prog = "mix" THEN {TRUE} ELSE BOOLEAN
    /\ input_file \in IF prog = "mix" THEN {"absent"} ELSE SepPaths
    /\ volumes = << >>
    /\ i = 1
    /\ sample_rate = 0
    /\ audio_data = << >>
    /\ sf_read = << >>
    /\ max_length = 0
    /\ padded_data = << >>
    /\ mixed = << >>
    /\ normalized = << >>
    /\ divisors = {}
    /\ temp_wav = 0
    /\ temp_count = 0
    /\ temps = {}
    /\ files = {}
    /\ partial = {}
    /\ exc = "none"
    /\ failed = FALSE
    /\ trace = << >>
    /\ result = NoResult
    /\ device = ""
    /\ wav = NoWav
    /\ stems = << >>
    /\ output_paths = {}
    /\ stdout = << >>
    /\ exit_code = 0 - 1

vars == <<prog, pc, input_paths, volumes_arg, output_format, volumes, i, sample_rate,
          audio_data, sf_read, max_length, padded_data, mixed, normalized, divisors, temp_wav,
          temp_count, temps, files, partial, exc, failed, trace, result, deps_ok, argv_ok,
          input_file, device, wav, stems, output_paths, stdout, exit_code>>

Next ==
    \/ MixStart \/ MixLoadOne \/ MixPad \/ MixSum \/ MixNormalize \/ MixMakedirs
    \/ MixWriteWav \/ MixReturn \/ MixExcept
    \/ Mp3CreateTemp \/ Mp3WriteWav \/ Mp3FromWav \/ Mp3Export \/ Mp3Finally
    \/ Import \/ MainParseArgs \/ MainCheckInput \/ MainPrintResult
    \/ SepInit \/ DemucsLoadModel \/ DemucsLoadAudio \/ DemucsResample \/ DemucsChannels
    \/ DemucsApply \/ DemucsStems \/ DemucsNormalizeStem \/ StemSaved \/ SepDone \/ SepExcept
    \/ SimpleLoad \/ SimpleAnalyze \/ SimpleSeparate \/ SimpleNormalize

Spec == Init /\ [][Next]_vars

\* ================================================================== claims
Separator == prog # "mix"

\* The percentages of the progress objects printed so far, in order.
ProgressOf(out) ==
    LET IsProgress(o) == o.status = "progress"
        ps == SelectSeq(out, IsProgress)
    IN  [k \in 1..Len(ps) |-> ps[k].progress]

NonDecreasing(s) == \A k \in 1..(Len(s) - 1) : s[k] <= s[k + 1]
Last(s) == s[Len(s)]
Returned == result.status # "none"

\* C1, as claimed: in every run of a separator pipeline the progress percentages are
\* non-decreasing, the first one is 0, and the last one emitted before the terminal
\* result is 100.
C1_Original ==
    Separator =>
        LET ps == ProgressOf(stdout)
        IN  /\ NonDecreasing(ps)
            /\ ps # << >> => ps[1] = 0
            /\ Returned => ps # << >> /\ Last(ps) = 100

\* C1, amended: in every run of a separator pipeline the progress percentages are
\* non-decreasing and the first one is 0; the last one emitted before the terminal
\* result is 100 exactly when that result is a success (a failing run emits no 100).
C1_ProgressMonotone ==
    Separator =>
        LET ps == ProgressOf(stdout)
        IN  /\ NonDecreasing(ps)
            /\ ps # << >> => ps[1] = 0
            /\ Returned => ps # << >>
            /\ Returned => (result.status = "success" <=> Last(ps) = 100)
            /\ result.status = "error" => \A k \in 1..Len(ps) : ps[k] # 100

\* A run of the simple separator that went through every checkpoint.
C1_Witness ==
    /\ prog = "simple"
    /\ result.status = "success"
    /\ ProgressOf(stdout) = <<0, 20, 40, 50, 60, 80, 100>>

\* C2, as claimed: every invocation of the separator CLI prints exactly one terminal
\* JSON object, after all its progress objects, and exits with 0 exactly when that
\* object's status is success and with 1 exactly when it is error.
C2_OneTerminalAndExitCode ==
    Separator =>
        LET terminals == {k \in 1..Len(stdout) : stdout[k].status # "progress"}
        IN  /\ Cardinality(terminals) <= 1
            /\ \A k \in terminals : k = Len(stdout)
            /\ pc = "exited" =>
                  /\ Cardinality(terminals) = 1
                  /\ exit_code = 0 <=> Last(stdout).status = "success"
                  /\ exit_code = 1 <=> Last(stdout).status = "error"

\* C3, as claimed: when some path of input_paths does not exist, mix_stems returns the
\* not-found error and no input file was handed to sf.read.
C3_NotFoundBeforeDecoding ==
    (/\ prog = "mix"
     /\ Returned
     /\ \E k \in 1..Len(input_paths) : ~FileSystem[input_paths[k]].exists)
        => /\ result.status = "error"
           /\ result.error = "Input file not found"
           /\ sf_read = << >>

\* ---- C4
MixFile(k) == FileSystem[input_paths[k]]
AllExist == \A k \in 1..Len(input_paths) : MixFile(k).exists

\* The inputs whose sample rate differs from the first input's.
Mismatching ==
    {k \in 2..Len(input_paths) :
        MixFile(1).readable /\ MixFile(k).readable /\ MixFile(k).sr # MixFile(1).sr}

FirstMismatching == CHOOSE k \in Mismatching : \A j \in Mismatching : k <= j

NothingMixed ==
    /\ result.status = "error"
    /\ \A k \in 1..Len(trace) : trace[k] \notin {"pad", "sum", "normalize", "encode"}
    /\ mixed = << >> /\ normalized = << >>
    /\ files = {} /\ partial = {}
    \* no resampling: what was loaded has the frame count of its file
    /\ \A k \in 1..Len(audio_data) : Len(audio_data[k]) = Len(MixFile(k).frames)

\* C4, as claimed: when all input files exist and some input's sample rate differs from
\* the first input's, mix_stems returns the mismatch error naming the first input's
\* rate, the actual rate and the offending path, and nothing is resampled, summed,
\* normalized or written.
C4_Original ==
    (prog = "mix" /\ Returned /\ AllExist /\ Mismatching # {})
        => /\ result = ErrorResult("Sample rate mismatch", MixFile(1).sr,
                                   MixFile(FirstMismatching).sr,
                                   input_paths[FirstMismatching])
           /\ NothingMixed

\* C4, amended: when all input files exist and some input's sample rate differs from
\* the first input's, mix_stems returns an error result and nothing is resampled,
\* summed, normalized or written; the error is the mismatch error naming the first
\* input's rate, the actual rate and the offending path when every input listed before
\* the first mismatching one can be decoded (otherwise it is the decoding error).
C4_MismatchIsAnError ==
    (prog = "mix" /\ Returned /\ AllExist /\ Mismatching # {})
        => /\ NothingMixed
           /\ (\A j \in 1..FirstMismatching : MixFile(j).readable)
                 => result = ErrorResult("Sample rate mismatch", MixFile(1).sr,
                                         MixFile(FirstMismatching).sr,
                                         input_paths[FirstMismatching])
           /\ (\E j \in 1..FirstMismatching : ~MixFile(j).readable)
                 => result = ErrorResult("Error mixing stems", 0, 0, "")

\* A run over 44100, 44100 and 48000 Hz files that ended with the mismatch error.
C4_Witness ==
    /\ prog = "mix"
    /\ input_paths = <<"lead", "mono", "hi">>
    /\ result = ErrorResult("Sample rate mismatch", 44100, 48000, "hi")
    /\ Len(audio_data) = 2

\* ---- C5
\* The stages a run completes when none fails.
FullTrace ==
    IF prog = "mix"
    THEN <<"volumes">> \o [k \in 1..Len(input_paths) |-> "load"]
             \o <<"pad", "sum", "normalize", "makedirs", "encode">>
    ELSE IF prog = "demucs"
    THEN <<"makedirs", "model", "load", "resample", "channels", "separate",
           "normalize", "encode", "normalize", "encode", "normalize", "encode",
           "normalize", "encode">>
    ELSE <<"makedirs", "load", "separate", "normalize", "encode", "encode">>

ExpectedOutputs ==
    IF prog = "mix" THEN {OutputPath} ELSE {StemNames[k] : k \in 1..Len(StemNames)}

C5_Terminal ==
    Returned =>
        /\ failed <=> result.status = "error"
        /\ result.status = "success" =>
              /\ trace = FullTrace
              /\ result.output_paths = ExpectedOutputs
              /\ result.output_paths \subseteq files
              /\ result.output_paths \cap partial = {}
              /\ temps = {}

C5_AfterFailure ==
    failed =>
        /\ failed'
        /\ trace' = trace
        /\ ProgressOf(stdout') = ProgressOf(stdout)
        /\ files' = files /\ partial' = partial
        /\ temp_count' = temp_count
        /\ result'.status \in {"none", "error"}

\* C5: in the mixer and in both separators, once a stage has failed no later stage
\* runs, no progress event is emitted and no file is written, and the run returns an
\* error result; a success result is returned only after every stage completed, and it
\* references exactly the expected output files, each written completely.
C5_ShortCircuit == [] C5_Terminal /\ [][C5_AfterFailure]_vars

\* A Demucs run whose third stem failed to encode after two stems were written.
C5_Witness ==
    /\ prog = "demucs"
    /\ result.status = "error"
    /\ files = {"drums", "bass"}
    /\ "other" \in partial

\* ---- C6
EncodingSteps == {"mp3_wav", "mp3_read", "mp3_export", "mp3_finally"}

\* C6: a temporary WAV file exists only while its encoding step runs (it is the step's
\* temp_wav), whatever the outcome of the WAV write, the read-back and the export; when
\* a run returns its result no temporary file of the run exists.
C6_TempFilesRemoved ==
    /\ temps \subseteq {temp_wav} \ {0}
    /\ temps # {} => pc \in EncodingSteps
    /\ pc \in EncodingSteps \ {"mp3_finally"} => temps = {temp_wav}
    /\ Returned => temps = {}

\* A run that created a temporary file, failed in the encoding step and returned.
C6_Witness ==
    /\ Returned
    /\ result.status = "error"
    /\ temp_count >= 1
    /\ Last(trace) = "encode"
    /\ temps = {}

\* ---- C7
\* The multiplier the claim gives input k: volumes[k] when the list has one, else 1.0.
ClaimedVolume(k) ==
    IF volumes_arg.given /\ k <= Len(volumes_arg.list) THEN volumes_arg.list[k] ELSE One

\* What sf.read and the mono-to-stereo step give for input k, before the volume.
Decoded(k) ==
    IF MixFile(k).channels = 1 THEN StackStereo(MixFile(k).frames) ELSE MixFile(k).frames

\* Inputs that load: all exist, decode and share one sample rate.
LoadableInputs ==
    /\ input_paths # << >>
    /\ \A k \in 1..Len(input_paths) :
          MixFile(k).exists /\ MixFile(k).readable /\ MixFile(k).sr = MixFile(1).sr

\* C7: every loaded input k is its decoded data times volumes[k] when the list has a
\* k-th entry and times 1.0 otherwise (a short list acts as if right-padded with 1.0,
\* no list as all 1.0); entries beyond the number of inputs are ignored: with loadable
\* inputs every input is loaded, and a run fails only in a later stage.
C7_VolumePadding ==
    prog = "mix" =>
        /\ \A k \in 1..Len(audio_data) :
              audio_data[k] = [f \in 1..Len(Decoded(k)) |->
                                  <<FMul(Decoded(k)[f][1], ClaimedVolume(k)),
                                    FMul(Decoded(k)[f][2], ClaimedVolume(k))>>]
        /\ (LoadableInputs /\ Returned) => Len(audio_data) = Len(input_paths)
        /\ (LoadableInputs /\ failed) => Last(trace) \in {"normalize", "makedirs", "encode"}

\* Three inputs loaded with the one-entry list [0.5].
C7_Witness ==
    /\ prog = "mix"
    /\ Len(input_paths) = 3
    /\ volumes_arg = [given |-> TRUE, list |-> <<Half>>]
    /\ Len(audio_data) = 3
    /\ audio_data[2] = Decoded(2)
    /\ audio_data[1] # Decoded(1)

\* ---- C8
Summed == prog = "mix" /\ \E k \in 1..Len(trace) : trace[k] = "sum"

\* Sample (f, c) of loaded input k, silence beyond its end.
SampleOrZero(k, f, c) == IF f <= Len(audio_data[k]) THEN audio_data[k][f][c] ELSE 0

\* The floating-point sum of the inputs' samples at (f, c), in input order.
RECURSIVE SumAt(_, _, _)
SumAt(n, f, c) ==
    IF n = 1 THEN SampleOrZero(1, f, c)
    ELSE FAdd(SumAt(n - 1, f, c), SampleOrZero(n, f, c))

\* C8: the mix has as many frames as the longest input; every input is kept whole and
\* followed by zero samples up to that length, and every sample of the mix is the sum
\* of the inputs' samples at the same frame index.
C8_LengthIsMax ==
    /\ (prog = "mix" /\ LoadableInputs /\ Returned) => Summed
    /\ Summed =>
        LET n == Len(input_paths)
            longest == SeqMax([k \in 1..n |-> Len(MixFile(k).frames)])
        IN  /\ Len(mixed) = longest
            /\ Len(audio_data) = n
            /\ \A k \in 1..n :
                  /\ Len(padded_data[k]) = longest
                  /\ SubSeq(padded_data[k], 1, Len(audio_data[k])) = audio_data[k]
                  /\ \A f \in (Len(audio_data[k]) + 1)..longest : padded_data[k][f] = <<0, 0>>
            /\ \A f \in 1..longest : \A c \in 1..2 : mixed[f][c] = SumAt(n, f, c)

\* A mix of inputs of different lengths.
C8_Witness ==
    /\ Summed
    /\ \E k \in 1..Len(audio_data) : Len(audio_data[k]) < Len(mixed)
    /\ \E k \in 1..Len(audio_data) : Len(audio_data[k]) = 0
    /\ \E f \in 1..Len(mixed) : mixed[f] # <<0, 0>>

\* ---- C9
\* The state right after line 97: the sum has just been computed.
JustSummed == prog = "mix" /\ pc = "mix_norm"

Orders(n) == {p \in [1..n -> 1..n] : \A a, b \in 1..n : p[a] = p[b] => a = b}

\* Lines 47-97 as a function of the arguments: the sum mix_stems computes for
\* loadable inputs `paths` and the volume argument `arg`.
MixOf(paths, arg) ==
    LET n == Len(paths)
        vols == DefaultVolumes(arg, n)
        bufs == [k \in 1..n |-> LoadedBuffer(FileSystem[paths[k]], VolumeAt(vols, k))]
        longest == SeqMax([k \in 1..n |-> Len(bufs[k])])
    IN  SumBuffers([k \in 1..n |-> PadTo(bufs[k], longest)])

\* The run's (input, volume) pairs reordered by p.
PermutedPaths(p) == [k \in 1..Len(input_paths) |-> input_paths[p[k]]]
PermutedVolumes(p) ==
    [given |-> TRUE, list |-> [k \in 1..Len(input_paths) |-> ClaimedVolume(p[k])]]

\* C9, as claimed: mixing any permutation of the (input, volume) pairs yields the
\* identical buffer, same length and same samples.
C9_Original ==
    JustSummed =>
        \A p \in Orders(Len(input_paths)) :
            MixOf(PermutedPaths(p), PermutedVolumes(p)) = mixed

\* The exact sum of the magnitudes of the inputs' samples at (f, c).
RECURSIVE MagnitudeAt(_, _, _)
MagnitudeAt(n, f, c) ==
    IF n = 0 THEN 0 ELSE MagnitudeAt(n - 1, f, c) + Abs(SampleOrZero(n, f, c))

\* C9, amended: mixing any permutation of the (input, volume) pairs yields a buffer of
\* the same length; its samples are identical for one or two inputs, and for more
\* inputs they differ from the original order's by no more than the rounding of the
\* partial sums (each of the n-1 additions of either order is off by at most one
\* spacing of the numbers at the size of the sum of magnitudes).
C9_OrderUpToRounding ==
    JustSummed =>
        LET n == Len(input_paths)
        IN  \A p \in Orders(n) :
                LET other == MixOf(PermutedPaths(p), PermutedVolumes(p))
                IN  /\ Len(other) = Len(mixed)
                    /\ n <= 2 => other = mixed
                    /\ \A f \in 1..Len(mixed) : \A c \in 1..2 :
                          Abs(other[f][c] - mixed[f][c])
                              <= 2 * (n - 1) * Step(MagnitudeAt(n, f, c))

\* Two different inputs with different volumes were mixed, so that a reordering
\* is a different call.
C9_Witness ==
    /\ JustSummed
    /\ input_paths = <<"lead", "mono">>
    /\ volumes_arg = [given |-> TRUE, list |-> <<Half, One>>]
    /\ MixOf(<<"mono", "lead">>, [given |-> TRUE, list |-> <<One, Half>>]) = mixed

\* ---- C10
\* The largest magnitude among the samples of a buffer, 0 for none.
MaxMagnitude(buf) ==
    LET mags == {Abs(buf[f][c]) : f \in 1..Len(buf), c \in 1..2} \cup {0}
    IN  CHOOSE m \in mags : \A x \in mags : x <= m

Sign(x) == IF x > 0 THEN 1 ELSE IF x < 0 THEN 0 - 1 ELSE 0

\* `after` is `before` normalized as claimed.
NormalizedAsClaimed(before, after) ==
    LET peak == MaxMagnitude(before)
    IN  /\ Len(after) = Len(before)
        /\ peak = 0 => after = before
        /\ peak > 0 =>
              /\ MaxMagnitude(after) = C95
              /\ \A f \in 1..Len(before) : \A c \in 1..2 :
                    LET x == before[f][c]
                        y == after[f][c]
                    IN  /\ Sign(y) \in {Sign(x), 0}
                        /\ Abs(x) = peak => Abs(y) = C95
                        \* y is x * 0.95 / peak up to the rounding of the two operations
                        /\ 2 * Abs(y * peak - C95 * x)
                              <= (Step(Abs(y)) + Step((One * Abs(x)) \div peak)) * peak

\* The buffers normalized so far, before and after.
NormalizedPairs ==
    IF prog = "mix" THEN {<<mixed, normalized[k]>> : k \in 1..Len(normalized)}
    ELSE {<<stems[k], normalized[k]>> : k \in 1..Len(normalized)}

\* C10: every normalization (the mix in mix_stems, every stem in both separators)
\* leaves a buffer of peak 0 unchanged and scales a buffer of peak > 0 by 0.95/peak, so
\* that its peak becomes 0.95 and no sample exceeds it; no division by a zero peak is
\* executed.
C10_Normalization ==
    /\ \A pair \in NormalizedPairs : NormalizedAsClaimed(pair[1], pair[2])
    /\ 0 \notin divisors
    /\ \A pair \in NormalizedPairs :
          MaxMagnitude(pair[1]) > 0 => MaxMagnitude(pair[1]) \in divisors
    /\ \A d \in divisors : \E pair \in NormalizedPairs : d = MaxMagnitude(pair[1])

\* A Demucs run that normalized a silent stem and a stem louder than full scale.
C10_Witness ==
    /\ prog = "demucs"
    /\ Len(normalized) = 4
    /\ \E k \in 1..4 : MaxMagnitude(stems[k]) = 0 /\ normalized[k] = stems[k]
    /\ \E k \in 1..4 : MaxMagnitude(stems[k]) > One /\ MaxMagnitude(normalized[k]) = C95

\* ---- C11
\* The channel count sf.read (or librosa.load) gave for the input file.
InputChannels == SepFileSystem[input_file].channels

\* The state after lines 99-104 of separate_audio.py ran.
ChannelsReconciled == prog = "demucs" /\ \E k \in 1..Len(trace) : trace[k] = "channels"

\* C11, as claimed: after the channel-reconciliation step of the Demucs separator the
\* waveform has model.audio_channels channels, whatever the input's channel count
\* (1 or more) was: duplicated when fewer, averaged when more, unchanged when equal.
C11_ChannelsMatchModel ==
    (ChannelsReconciled /\ InputChannels >= 1) => wav.channels = ModelAudioChannels

====
